---- MODULE Spec2Model ----
(***************************************************************************)
(* Retrieval orchestration of the Universal Document Intelligence Chatbot: *)
(* the query router (components/query_router.py) and the query handler of  *)
(* the Streamlit driver (app.py) with its collaborators (vector_store.py,  *)
(* web_search.py, llm_handler.py).                                         *)
(*                                                                         *)
(* Strings are sequences of one-character strings, so that substring       *)
(* containment (`keyword in query`) and the regular expressions of the     *)
(* router are computed character by character.  Scores are fixed-point     *)
(* numbers: the float x is the integer x * Unit.                           *)
(***************************************************************************)
EXTENDS Integers, Sequences, FiniteSets, TLC

VARIABLES
    r_query,          \* router harness: the query string passed to route_query
    r_has_documents,  \* router harness: the has_documents argument
    r_result,         \* router harness: the returned dict, or NoResult before the call
    query_router,     \* st.session_state.query_router: the QueryRouter object
    chat_history,     \* st.session_state.chat_history
    processed_docs,   \* st.session_state.processed_docs
    components_initialized,  \* 'components_initialized' in st.session_state
    web_search,       \* st.session_state.web_search: a WebSearch, None, or not set
    web_search_available,    \* st.session_state.web_search_available, or "unset"
    collection,       \* the chunks of the persistent Chroma collection
    temp_files,       \* the names whose temp_<name> file exists
    last,             \* the locals and calls of the latest handle_user_query
    routing_log,      \* the arguments and result of every route_query call so far
    p_processor,      \* chunker harness: the DocumentProcessor object
    p_pages,          \* chunker harness: the text extract_text() gives for each page
    p_result          \* chunker harness: what process_pdf did, or NoChunks before the call

vars == << r_query, r_has_documents, r_result, query_router, chat_history,
           processed_docs, components_initialized, web_search, web_search_available,
           collection, temp_files, last, routing_log,
           p_processor, p_pages, p_result >>

(***************************************************************************)
(* Bounds of the model.                                                    *)
(***************************************************************************)
\* Longest query drawn for the router, in vocabulary phrases.
MaxTokens == 2
\* Queries handled in one run of the model.
MaxQueries == 2
\* Entries of processed_docs.
MaxDocs == 1
\* Longest document drawn for the chunker, in lines and page breaks.
MaxItems == 3

(***************************************************************************)
(* Characters and strings.                                                 *)
(***************************************************************************)
UpperCase == << "A","B","C","D","E","F","G","H","I","J","K","L","M",
                "N","O","P","Q","R","S","T","U","V","W","X","Y","Z" >>
LowerCase == << "a","b","c","d","e","f","g","h","i","j","k","l","m",
                "n","o","p","q","r","s","t","u","v","w","x","y","z" >>
DigitChars == {"0","1","2","3","4","5","6","7","8","9"}
SpaceChars == {" ", "\t", "\n"}
Range(s) == {s[i] : i \in DOMAIN s}

\* str.lower() on one character
LowerChar(c) ==
    IF \E i \in DOMAIN UpperCase : UpperCase[i] = c
    THEN LowerCase[CHOOSE i \in DOMAIN UpperCase : UpperCase[i] = c]
    ELSE c

\* str.lower()
lower(s) == [i \in DOMAIN s |-> LowerChar(s[i])]

\* \w of the re module, on the characters of the model
IsWordChar(c) == c \in Range(LowerCase) \cup Range(UpperCase) \cup DigitChars \cup {"_"}

\* s[p : p + len(w)] == w, positions counted from 1
HasAt(s, p, w) ==
    /\ p + Len(w) - 1 <= Len(s)
    /\ \A j \in 1..Len(w) : s[p + j - 1] = w[j]

\* `keyword in query`
Contains(s, w) == \E p \in 1..(Len(s) - Len(w) + 1) : HasAt(s, p, w)

(***************************************************************************)
(* The regular expressions the router uses: \b, literals, (?:a|b),         *)
(* \s+, \d+ and a character class; and those of the header patterns: $,    *)
(* repeated classes, .*, (?:...)* and x?.  A position p means "before s[p]". *)
(***************************************************************************)
B == [t |-> "b"]
WS == [t |-> "s+"]
Digits == [t |-> "d+"]
Lit(w) == [t |-> "lit", w |-> w]
Alt(ps) == [t |-> "alt", alts |-> ps]
Class(cs) == [t |-> "class", chars |-> cs]
\* $
AtEnd == [t |-> "$"]
\* [cs]{min,}: at least min characters of cs
Many(cs, min) == [t |-> "many", chars |-> cs, min |-> min, negated |-> FALSE]
\* .*: any characters but the newline
AnyStar == [t |-> "many", chars |-> {"\n"}, min |-> 0, negated |-> TRUE]
\* (?:pat)*
Star(pat) == [t |-> "star", pat |-> pat]
\* (?:pat)?
Opt(pat) == [t |-> "opt", pat |-> pat]

\* \b: exactly one of the characters around position p is a word character
AtBoundary(s, p) ==
    LET before == p > 1 /\ IsWordChar(s[p - 1])
        after == p <= Len(s) /\ IsWordChar(s[p])
    IN before # after

\* one or more characters of cs, starting at a position of P
RunEnds(s, P, cs) ==
    {q \in 2..(Len(s) + 1) : \E p \in P : p < q /\ \A j \in p..(q - 1) : s[j] \in cs}

\* at least min characters that are in cs (or, negated, not in cs), starting at
\* a position of P
ManyEnds(s, P, e) ==
    {q \in 1..(Len(s) + 1) :
        \E p \in P : /\ p + e.min <= q
                     /\ \A j \in p..(q - 1) : (s[j] \in e.chars) # e.negated}

RECURSIVE Ends(_, _, _)
RECURSIVE StarEnds(_, _, _)
\* the positions where a match of element e that starts at a position of P can end
Step(e, s, P) ==
    CASE e.t = "b" -> {p \in P : AtBoundary(s, p)}
      [] e.t = "lit" -> {p + Len(e.w) : p \in {q \in P : HasAt(s, q, e.w)}}
      [] e.t = "alt" -> UNION {Ends(e.alts[i], s, P) : i \in DOMAIN e.alts}
      [] e.t = "s+" -> RunEnds(s, P, SpaceChars)
      [] e.t = "d+" -> RunEnds(s, P, DigitChars)
      [] e.t = "class" -> {p + 1 : p \in {q \in P : q <= Len(s) /\ s[q] \in e.chars}}
      [] e.t = "$" -> {p \in P : p = Len(s) + 1 \/ (p = Len(s) /\ s[p] = "\n")}
      [] e.t = "many" -> ManyEnds(s, P, e)
      [] e.t = "star" -> StarEnds(e.pat, s, P)
      [] e.t = "opt" -> P \cup Ends(e.pat, s, P)

\* the positions where a match of pattern pat that starts at a position of P can end
Ends(pat, s, P) ==
    IF pat = << >> THEN P ELSE Ends(Tail(pat), s, Step(Head(pat), s, P))

\* zero or more matches of pat in a row, starting at a position of P
StarEnds(pat, s, P) ==
    LET Q == P \cup Ends(pat, s, P)
    IN IF Q = P THEN P ELSE StarEnds(pat, s, Q)

\* re.match(pattern, s) finds a match at the beginning of s
re_match(pat, s) == Ends(pat, s, {1}) # {}

\* re.search(pattern, s) finds a match
re_search(pat, s) == Ends(pat, s, 1..(Len(s) + 1)) # {}

(***************************************************************************)
(* QueryRouter.__init__: the keyword tables.                               *)
(***************************************************************************)
WebKeywordsInit ==
  << [category |-> "temporal",
      keywords |-> << <<"l","a","t","e","s","t">>,
                     <<"r","e","c","e","n","t">>,
                     <<"c","u","r","r","e","n","t">>,
                     <<"t","o","d","a","y">>,
                     <<"n","o","w">>,
                     <<"2","0","2","4">>,
                     <<"2","0","2","5">>,
                     <<"t","h","i","s"," ","y","e","a","r">> >>],
     [category |-> "explanatory",
      keywords |-> << <<"e","x","p","l","a","i","n">>,
                     <<"h","o","w"," ","d","o","e","s">>,
                     <<"w","h","a","t"," ","i","s">>,
                     <<"w","h","y"," ","d","o","e","s">>,
                     <<"h","o","w"," ","t","o">> >>],
     [category |-> "comparative",
      keywords |-> << <<"v","s">>,
                     <<"v","e","r","s","u","s">>,
                     <<"c","o","m","p","a","r","e">>,
                     <<"c","o","m","p","a","r","i","s","o","n">>,
                     <<"a","l","t","e","r","n","a","t","i","v","e">>,
                     <<"b","e","t","t","e","r"," ","t","h","a","n">> >>],
     [category |-> "current_data",
      keywords |-> << <<"p","r","i","c","e">>,
                     <<"c","o","s","t">>,
                     <<"s","t","o","c","k">>,
                     <<"m","a","r","k","e","t">>,
                     <<"t","r","e","n","d">>,
                     <<"n","e","w","s">>,
                     <<"u","p","d","a","t","e">> >>],
     [category |-> "general_knowledge",
      keywords |-> << <<"d","e","f","i","n","e">>,
                     <<"d","e","f","i","n","i","t","i","o","n">>,
                     <<"m","e","a","n","i","n","g">>,
                     <<"w","h","o"," ","i","s">>,
                     <<"w","h","a","t"," ","a","r","e">> >>] >>

DocumentKeywordsInit ==
  << <<"a","c","c","o","r","d","i","n","g"," ","t","o">>,
     <<"i","n"," ","t","h","e"," ","d","o","c","u","m","e","n","t">>,
     <<"f","r","o","m"," ","t","h","e"," ","f","i","l","e">>,
     <<"m","e","n","t","i","o","n","e","d"," ","i","n">>,
     <<"s","t","a","t","e","s"," ","t","h","a","t">>,
     <<"d","o","c","u","m","e","n","t"," ","s","a","y","s">>,
     <<"w","r","i","t","t","e","n"," ","i","n">>,
     <<"s","p","e","c","i","f","i","e","d"," ","i","n">> >>

question_patterns ==
  << << B, Lit(<<"h","o","w">>), WS, Alt(<< << Lit(<<"t","o">>) >>, << Lit(<<"d","o">>) >>, << Lit(<<"d","o","e","s">>) >>, << Lit(<<"c","a","n">>) >> >>), B >>,
     << B, Lit(<<"w","h","a","t">>), WS, Alt(<< << Lit(<<"i","s">>) >>, << Lit(<<"a","r","e">>) >>, << Lit(<<"d","o","e","s">>) >> >>), B >>,
     << B, Lit(<<"w","h","y">>), WS, Alt(<< << Lit(<<"i","s">>) >>, << Lit(<<"a","r","e">>) >>, << Lit(<<"d","o","e","s">>) >>, << Lit(<<"d","o">>) >> >>), B >>,
     << B, Lit(<<"w","h","e","n">>), WS, Alt(<< << Lit(<<"i","s">>) >>, << Lit(<<"a","r","e">>) >>, << Lit(<<"w","a","s">>) >>, << Lit(<<"w","e","r","e">>) >> >>), B >>,
     << B, Lit(<<"w","h","e","r","e">>), WS, Alt(<< << Lit(<<"i","s">>) >>, << Lit(<<"a","r","e">>) >>, << Lit(<<"c","a","n">>) >> >>), B >> >>

time_patterns ==
  << << B, Alt(<< << Lit(<<"t","o","d","a","y">>) >>, << Lit(<<"n","o","w">>) >>, << Lit(<<"c","u","r","r","e","n","t","l","y">>) >>, << Lit(<<"t","h","i","s">>), WS, Alt(<< << Lit(<<"y","e","a","r">>) >>, << Lit(<<"m","o","n","t","h">>) >>, << Lit(<<"w","e","e","k">>) >> >>) >> >>), B >>,
     << B, Lit(<<"2","0","2">>), Class({"4","5","6","7","8","9"}), B >>,
     << B, Alt(<< << Lit(<<"l","a","t","e","s","t">>) >>, << Lit(<<"r","e","c","e","n","t">>) >>, << Lit(<<"n","e","w">>) >>, << Lit(<<"u","p","d","a","t","e","d">>) >> >>), B >> >>

document_patterns ==
  << << B, Lit(<<"i","n">>), WS, Alt(<< << Lit(<<"t","h","e">>) >>, << Lit(<<"t","h","i","s">>) >>, << Lit(<<"t","h","a","t">>) >> >>), WS, Alt(<< << Lit(<<"d","o","c","u","m","e","n","t">>) >>, << Lit(<<"f","i","l","e">>) >>, << Lit(<<"p","d","f">>) >>, << Lit(<<"r","e","p","o","r","t">>) >> >>), B >>,
     << B, Lit(<<"a","c","c","o","r","d","i","n","g">>), WS, Lit(<<"t","o">>), B >>,
     << B, Lit(<<"m","e","n","t","i","o","n","e","d">>), WS, Alt(<< << Lit(<<"i","n">>) >>, << Lit(<<"a","b","o","v","e">>) >>, << Lit(<<"b","e","l","o","w">>) >> >>), B >>,
     << B, Lit(<<"s","e","c","t","i","o","n">>), WS, Digits, B >>,
     << B, Lit(<<"p","a","g","e">>), WS, Digits, B >>,
     << B, Lit(<<"c","h","a","p","t","e","r">>), WS, Digits, B >> >>

specific_patterns ==
  << << B, Lit(<<"w","h","a","t">>), WS, Lit(<<"d","o","e","s">>), WS, Alt(<< << Lit(<<"t","h","e">>) >>, << Lit(<<"t","h","i","s">>) >> >>), WS, Lit(<<"d","o","c","u","m","e","n","t">>), WS, Lit(<<"s","a","y">>), B >>,
     << B, Lit(<<"f","i","n","d">>), WS, Alt(<< << Lit(<<"i","n">>) >>, << Lit(<<"f","r","o","m">>) >> >>), WS, Alt(<< << Lit(<<"t","h","e">>) >>, << Lit(<<"t","h","i","s">>) >> >>), B >>,
     << B, Lit(<<"s","u","m","m","a","r","i","z","e">>), WS, Alt(<< << Lit(<<"t","h","e">>) >>, << Lit(<<"t","h","i","s">>) >> >>), B >>,
     << B, Lit(<<"l","i","s","t">>), WS, Alt(<< << Lit(<<"a","l","l">>) >>, << Lit(<<"t","h","e">>) >> >>), B >> >>

Vocabulary ==
  << <<"W","h","a","t"," ","i","s">>,
     <<"l","a","t","e","s","t">>,
     <<"m","e","n","t","i","o","n","e","d"," ","i","n"," ","t","h","e"," ","d","o","c","u","m","e","n","t">>,
     <<"d","o","c","u","m","e","n","t"," ","s","a","y","s">>,
     <<"s","e","c","t","i","o","n"," ","3">>,
     <<"k","n","o","w">>,
     <<"h","o","w"," ","d","o"," ","n","e","w">>,
     <<"W","h","a","t"," ","i","s"," ","t","h","e"," ","l","a","t","e","s","t">> >>

ExampleQueries ==
  { <<"W","h","a","t"," ","i","s"," ","t","h","e"," ","l","a","t","e","s","t"," ","s","t","o","c","k"," ","p","r","i","c","e"," ","o","f"," ","A","c","m","e"," ","C","o","r","p","?">>,
    <<"A","c","c","o","r","d","i","n","g"," ","t","o"," ","t","h","e"," ","d","o","c","u","m","e","n","t",","," ","w","h","a","t"," ","i","s"," ","m","e","n","t","i","o","n","e","d"," ","i","n"," ","s","e","c","t","i","o","n"," ","3","?">> }


\* the QueryRouter object after __init__
QueryRouter == [web_keywords |-> WebKeywordsInit, document_keywords |-> DocumentKeywordsInit]

(***************************************************************************)
(* Scores.  Unit is the float 1.0; Dec(t) is the float t/10.               *)
(***************************************************************************)
Unit == 8400
Dec(tenths) == (tenths * Unit) \div 10
Min(a, b) == IF a <= b THEN a ELSE b

\* the number of keywords of the list found in the query (`keyword in query`)
CountContained(keywords, query) ==
    Cardinality({i \in DOMAIN keywords : Contains(query, keywords[i])})

\* the number of patterns of the list that re.search finds in the query
CountMatched(pats, query) ==
    Cardinality({i \in DOMAIN pats : re_search(pats[i], query)})

\* mutant: the category score is not divided by the size of the category
CategoryShare_unnormalised(keywords, query) ==
    IF keywords = << >> THEN 0
    ELSE (Min(CountContained(keywords, query) * Unit, Unit) * 2) \div 10

\* min(category_score / len(keywords), 1.0) * 0.2, and 0 for an empty keyword list
CategoryShare(keywords, query) ==
    IF keywords = << >> THEN 0
    ELSE (Min((CountContained(keywords, query) * Unit) \div Len(keywords), Unit) * 2) \div 10

RECURSIVE SumCategories(_, _)
SumCategories(cats, query) ==
    IF cats = << >> THEN 0
    ELSE CategoryShare(Head(cats).keywords, query) + SumCategories(Tail(cats), query)

AnyMatch(pats, query) == \E i \in DOMAIN pats : re_search(pats[i], query)

\* _calculate_web_score without the 0.4 of the time patterns
calculate_web_score_no_time(self, query) ==
    Min(SumCategories(self.web_keywords, query)
          + (IF AnyMatch(question_patterns, query) THEN Dec(3) ELSE 0),
        Unit)

\* QueryRouter._calculate_web_score
calculate_web_score(self, query) ==
    Min(SumCategories(self.web_keywords, query)
          + (IF AnyMatch(question_patterns, query) THEN Dec(3) ELSE 0)
          + (IF AnyMatch(time_patterns, query) THEN Dec(4) ELSE 0),
        Unit)

\* the sum _calculate_document_score accumulates before it is capped
document_score_sum(self, query) ==
    CountContained(self.document_keywords, query) * Dec(5)
      + CountMatched(document_patterns, query) * Dec(3)
      + CountMatched(specific_patterns, query) * Dec(4)

\* mutant: the score is returned without the cap at 1.0
calculate_document_score_uncapped(self, query) == document_score_sum(self, query)

\* QueryRouter._calculate_document_score
calculate_document_score(self, query) == Min(document_score_sum(self, query), Unit)

\* mutant: the document threshold is tested before the web threshold
Decide_document_first(web_score, document_score) ==
    IF document_score > Dec(6)
    THEN [route |-> "document", confidence |-> document_score,
          reason |-> "Query appears to reference document content"]
    ELSE IF web_score > Dec(7)
    THEN [route |-> "web", confidence |-> web_score,
          reason |-> "Query suggests need for current/external information"]
    ELSE IF web_score > Dec(4) /\ document_score > Dec(4)
    THEN [route |-> "hybrid", confidence |-> (web_score + document_score) \div 2,
          reason |-> "Query could benefit from both sources"]
    ELSE [route |-> "document", confidence |-> Dec(5),
          reason |-> "Default to document search"]

\* the decision logic of route_query, lines 49-73
Decide(web_score, document_score) ==
    IF web_score > Dec(7)
    THEN [route |-> "web", confidence |-> web_score,
          reason |-> "Query suggests need for current/external information"]
    ELSE IF document_score > Dec(6)
    THEN [route |-> "document", confidence |-> document_score,
          reason |-> "Query appears to reference document content"]
    ELSE IF web_score > Dec(4) /\ document_score > Dec(4)
    THEN [route |-> "hybrid", confidence |-> (web_score + document_score) \div 2,
          reason |-> "Query could benefit from both sources"]
    ELSE [route |-> "document", confidence |-> Dec(5),
          reason |-> "Default to document search"]

\* mutant: the scores decide even when there are no documents
route_query_no_shortcut(self, query, has_documents) ==
    Decide(calculate_web_score(self, lower(query)),
           calculate_document_score(self, lower(query)))

\* QueryRouter.route_query
route_query(self, query, has_documents) ==
    LET query_lower == lower(query)
    IN IF ~has_documents
       THEN [route |-> "web", confidence |-> Unit, reason |-> "No documents available"]
       ELSE Decide(calculate_web_score(self, query_lower),
                   calculate_document_score(self, query_lower))

(***************************************************************************)
(* The queries drawn for the router: up to MaxTokens phrases of the        *)
(* vocabulary separated by one space, and the two example queries.         *)
(***************************************************************************)
RECURSIVE Join(_)
Join(ts) ==
    IF ts = << >> THEN << >>
    ELSE IF Len(ts) = 1 THEN ts[1]
    ELSE ts[1] \o << " " >> \o Join(Tail(ts))

Queries ==
    {Join([i \in DOMAIN f |-> Vocabulary[f[i]]]) :
        f \in UNION {[1..n -> DOMAIN Vocabulary] : n \in 0..MaxTokens}} \cup ExampleQueries

\* no decision yet
NoResult == [route |-> "none", confidence |-> 0, reason |-> ""]

(***************************************************************************)
(* DocumentProcessor: sections, chunks and page numbers.  Offsets count    *)
(* from 0 as in the source; text[a:b] is Slice(text, a, b).                *)
(***************************************************************************)
\* DocumentProcessor.__init__
DocumentProcessor(chunk_size, chunk_overlap) ==
    [chunk_size |-> chunk_size, chunk_overlap |-> chunk_overlap]

Max(a, b) == IF a >= b THEN a ELSE b
Least(S) == CHOOSE i \in S : \A j \in S : i <= j
Greatest(S) == CHOOSE i \in S : \A j \in S : j <= i

\* text[a:b], for 0 <= a
Slice(text, a, b) == SubSeq(text, a + 1, Min(b, Len(text)))
\* text[-n:]
LastChars(text, n) == SubSeq(text, Max(Len(text) - n, 0) + 1, Len(text))

\* str.strip()
strip(s) ==
    LET kept == {i \in DOMAIN s : s[i] \notin SpaceChars}
    IN IF kept = {} THEN << >> ELSE SubSeq(s, Least(kept), Greatest(kept))

\* text.split('\n'): the pieces between the newlines
split_lines(text) ==
    LET breaks == {i \in DOMAIN text : text[i] = "\n"}
        n == Cardinality(breaks)
        at(k) == IF k = 0 THEN 0
                 ELSE IF k = n + 1 THEN Len(text) + 1
                 ELSE CHOOSE i \in breaks : Cardinality({j \in breaks : j < i}) = k - 1
    IN [k \in 1..(n + 1) |-> SubSeq(text, at(k - 1) + 1, at(k) - 1)]

\* str(n) for n >= 0
RECURSIVE str(_)
str(n) ==
    LET digit(d) == << "0","1","2","3","4","5","6","7","8","9" >>[d + 1]
    IN IF n < 10 THEN << digit(n) >> ELSE str(n \div 10) \o << digit(n % 10) >>

\* the header patterns of _split_by_sections
header_patterns ==
  << << Many(Range(UpperCase) \cup SpaceChars, 3), AtEnd >>,
     << Digits, Lit(<< "." >>), WS, Class(Range(UpperCase)), AnyStar, AtEnd >>,
     << Class(Range(UpperCase)), Many(Range(LowerCase), 1),
        Star(<< WS, Class(Range(UpperCase)), Many(Range(LowerCase), 1) >>),
        Opt(<< Lit(<< ":" >>) >>), Many(SpaceChars, 0), AtEnd >>,
     << Lit(<< "*", "*" >>), AnyStar, Lit(<< "*", "*" >>), AtEnd >>,
     << Many({"#"}, 1), WS, AnyStar, AtEnd >> >>

\* is_header after the loop over header_patterns
is_header(line) == \E i \in DOMAIN header_patterns : re_match(header_patterns[i], line)

Introduction == << "I","n","t","r","o","d","u","c","t","i","o","n" >>

RECURSIVE SectionLoop(_, _, _)
\* mutant: every header line closes the current section, however short it is
SectionLoop_any_header(lines, sections, current_section) ==
    IF lines = << >> THEN [sections |-> sections, current_section |-> current_section]
    ELSE LET line == strip(Head(lines))
         IN IF line = << >>
            THEN SectionLoop(Tail(lines), sections,
                             [current_section EXCEPT !.text = @ \o << "\n" >>])
            ELSE IF is_header(line)
            THEN SectionLoop(Tail(lines), Append(sections, current_section),
                             [title |-> line, text |-> << >>])
            ELSE SectionLoop(Tail(lines), sections,
                             [current_section EXCEPT !.text = @ \o line \o << "\n" >>])

\* the loop over the lines: the sections closed so far and the current section
SectionLoop(lines, sections, current_section) ==
    IF lines = << >> THEN [sections |-> sections, current_section |-> current_section]
    ELSE LET line == strip(Head(lines))
         IN IF line = << >>
            THEN SectionLoop(Tail(lines), sections,
                             [current_section EXCEPT !.text = @ \o << "\n" >>])
            ELSE IF is_header(line) /\ Len(strip(current_section.text)) > 50
            THEN SectionLoop(Tail(lines), Append(sections, current_section),
                             [title |-> line, text |-> << >>])
            ELSE SectionLoop(Tail(lines), sections,
                             [current_section EXCEPT !.text = @ \o line \o << "\n" >>])

\* DocumentProcessor._split_by_sections
split_by_sections(text) ==
    LET done == SectionLoop(split_lines(text), << >>,
                            [title |-> Introduction, text |-> << >>])
    IN IF strip(done.current_section.text) # << >>
       THEN Append(done.sections, done.current_section)
       ELSE done.sections

sentence_ends ==
    << << ".", " " >>, << "!", " " >>, << "?", " " >>,
       << ".", "\n" >>, << "!", "\n" >>, << "?", "\n" >> >>

\* mutant: the first occurrence in the range, as text.find gives it
rfind_first(text, pattern, lo, hi) ==
    LET found == {p \in lo..(Min(hi, Len(text)) - Len(pattern)) : HasAt(text, p + 1, pattern)}
    IN IF found = {} THEN -1 ELSE Least(found)

\* text.rfind(pattern, lo, hi): the last offset p with lo <= p and
\* p + len(pattern) <= hi where pattern occurs, or -1
rfind(text, pattern, lo, hi) ==
    LET found == {p \in lo..(Min(hi, Len(text)) - Len(pattern)) : HasAt(text, p + 1, pattern)}
    IN IF found = {} THEN -1 ELSE Greatest(found)

\* mutant: _find_sentence_break looking for a sentence end past the chunk's end
find_sentence_break_lookahead(text, start, end) ==
    LET search_start == Max(start, end - 200)
        pos(i) == rfind(text, sentence_ends[i], search_start, end + 200)
        breaks == {pos(i) + Len(sentence_ends[i]) : i \in {j \in DOMAIN sentence_ends : pos(j) # -1}}
    IN IF breaks = {} THEN -1 ELSE Greatest(breaks)

\* DocumentProcessor._find_sentence_break
find_sentence_break(text, start, end) ==
    LET search_start == Max(start, end - 200)
        pos(i) == rfind(text, sentence_ends[i], search_start, end)
        breaks == {pos(i) + Len(sentence_ends[i]) : i \in {j \in DOMAIN sentence_ends : pos(j) # -1}}
    IN IF breaks = {} THEN -1 ELSE Greatest(breaks)

RECURSIVE SplitLoop(_, _, _, _)
\* the while loop of _split_text_recursive; starts holds the value of start at
\* every iteration so far, the current one last.  The loop's course depends on
\* start alone, so a value of start that comes back repeats forever: the call
\* does not return and chunks grows without end.
SplitLoop(self, text, chunks, starts) ==
    LET start == starts[Len(starts)]
        end == start + self.chunk_size
        found == find_sentence_break(text, start, end)
        break_point == IF found = -1 THEN end ELSE found
        next == Max(break_point - self.chunk_overlap, 0)
        appended == Append(chunks, Slice(text, start, break_point))
    IN IF ~(start < Len(text))
       THEN [returns |-> TRUE, chunks |-> chunks, starts |-> starts]
       ELSE IF end >= Len(text)
       THEN [returns |-> TRUE, chunks |-> Append(chunks, Slice(text, start, Len(text))),
             starts |-> starts]
       ELSE IF \E i \in DOMAIN starts : starts[i] = next
       THEN [returns |-> FALSE, chunks |-> appended, starts |-> Append(starts, next)]
       ELSE SplitLoop(self, text, appended, Append(starts, next))

\* DocumentProcessor._split_text_recursive
split_text_recursive(self, text) ==
    IF Len(text) <= self.chunk_size
    THEN [returns |-> TRUE, chunks |-> << text >>, starts |-> << 0 >>]
    ELSE SplitLoop(self, text, << >>, << 0 >>)

\* DocumentProcessor._find_page_numbers; None is 0 here, `x or 1` treats both alike
find_page_numbers(chunk_text, page_texts) ==
    LET chunk_start == strip(Slice(chunk_text, 0, 100))
        chunk_end == strip(LastChars(chunk_text, 100))
        with_start == {i \in DOMAIN page_texts : Contains(page_texts[i].text, chunk_start)}
        with_end == {i \in DOMAIN page_texts : Contains(page_texts[i].text, chunk_end)}
        start_page == IF with_start = {} THEN 0 ELSE page_texts[Least(with_start)].page_num
        end_page == IF with_end = {} THEN 0 ELSE page_texts[Greatest(with_end)].page_num
    IN [start_page |-> IF start_page # 0 THEN start_page ELSE 1,
        end_page |-> IF end_page # 0 THEN end_page
                     ELSE IF start_page # 0 THEN start_page ELSE 1]

\* the chunk dict built for the i-th chunk text of a section
MakeChunk(chunk_text, section, filename, page_texts, chunk_index) ==
    LET page_info == find_page_numbers(chunk_text, page_texts)
    IN [content |-> strip(chunk_text),
        metadata |-> [filename |-> filename, section |-> section.title,
                      page_start |-> page_info.start_page,
                      page_end |-> page_info.end_page,
                      chunk_index |-> chunk_index,
                      chunk_size |-> Len(chunk_text)]]

RECURSIVE ChunkLoop(_, _, _, _, _, _)
\* mutant: chunk_index is the index within the section
ChunkLoop_index_in_section(self, sections, filename, page_texts, chunks, splits) ==
    IF sections = << >> THEN [returns |-> TRUE, chunks |-> chunks, splits |-> splits]
    ELSE LET section == Head(sections)
             split == split_text_recursive(self, section.text)
             made == [i \in DOMAIN split.chunks |->
                         MakeChunk(split.chunks[i], section, filename, page_texts, i - 1)]
         IN IF ~split.returns
            THEN [returns |-> FALSE, chunks |-> chunks, splits |-> Append(splits, split)]
            ELSE ChunkLoop(self, Tail(sections), filename, page_texts,
                           chunks \o made, Append(splits, split))

\* the loop over the sections: the chunks appended so far and the result of
\* _split_text_recursive for every section so far
ChunkLoop(self, sections, filename, page_texts, chunks, splits) ==
    IF sections = << >> THEN [returns |-> TRUE, chunks |-> chunks, splits |-> splits]
    ELSE LET section == Head(sections)
             split == split_text_recursive(self, section.text)
             made == [i \in DOMAIN split.chunks |->
                         MakeChunk(split.chunks[i], section, filename, page_texts,
                                   Len(chunks) + i - 1)]
         IN IF ~split.returns
            THEN [returns |-> FALSE, chunks |-> chunks, splits |-> Append(splits, split)]
            ELSE ChunkLoop(self, Tail(sections), filename, page_texts,
                           chunks \o made, Append(splits, split))

\* DocumentProcessor._create_intelligent_chunks
create_intelligent_chunks(self, text, filename, page_texts) ==
    LET sections == split_by_sections(text)
        looped == ChunkLoop(self, sections, filename, page_texts, << >>, << >>)
    IN [returns |-> looped.returns, chunks |-> looped.chunks,
        sections |-> sections, splits |-> looped.splits]

\* f"\n[Page {page_num + 1}]\n{page_text}"
PageText(page_num, page_text) ==
    << "\n", "[", "P", "a", "g", "e", " " >> \o str(page_num) \o << "]", "\n" >> \o page_text

RECURSIVE FullText(_, _)
\* full_text after the pages from page number n on
FullText(pages, n) ==
    IF n > Len(pages) THEN << >> ELSE PageText(n, pages[n]) \o FullText(pages, n + 1)

\* DocumentProcessor.process_pdf on the extracted page texts
process_pdf(self, pages, filename) ==
    LET full_text == FullText(pages, 1)
        page_texts == [n \in DOMAIN pages |-> [page_num |-> n, text |-> pages[n]]]
    IN create_intelligent_chunks(self, full_text, filename, page_texts)

\* process_pdf has not been called
NoChunks == [called |-> FALSE, returns |-> FALSE, chunks |-> << >>, sections |-> << >>,
             splits |-> << >>]

(***************************************************************************)
(* Collaborators.  A call either returns a value or raises an exception    *)
(* whose message is a list of string fragments (f-string concatenation).   *)
(***************************************************************************)
Return(v) == [raised |-> FALSE, value |-> v, error |-> << >>]
Raise(msg) == [raised |-> TRUE, value |-> << >>, error |-> msg]

\* os.getenv("SERPER_API_KEY"): unset, set to the empty string, or set to a key
NoneValue == [class |-> "NoneType"]
ApiKeys == {NoneValue, [class |-> "str", chars |-> << >>],
            [class |-> "str", chars |-> << "k", "e", "y" >>]}

\* `not self.api_key`
Falsy(v) == v = NoneValue \/ (v.class = "str" /\ v.chars = << >>)

\* WebSearch.__init__
WebSearch(api_key) ==
    IF Falsy(api_key)
    THEN Raise(<< "SERPER_API_KEY environment variable is required" >>)
    ELSE Return([class |-> "WebSearch", api_key |-> api_key])

\* WebSearch.search: organic results, then the answer box and the knowledge
\* graph each inserted at the front
web_search_search(self, data) ==
    LET num_results == 5
        organic == [i \in 1..Min(data.organic, num_results) |->
                       [title |-> "organic", rank |-> i, source |-> "web"]]
        with_answer == IF data.answerBox
                       THEN << [title |-> "Answer Box", rank |-> 0, source |-> "answer_box"] >>
                               \o organic
                       ELSE organic
        with_graph == IF data.knowledgeGraph
                      THEN << [title |-> "Knowledge Graph", rank |-> 0,
                               source |-> "knowledge_graph"] >> \o with_answer
                      ELSE with_answer
    IN CASE data.fail = "request" -> Raise(<< "Web search API error: ", "RequestException" >>)
         [] data.fail = "other" -> Raise(<< "Web search error: ", "Exception" >>)
         [] OTHER -> Return(with_graph)

\* VectorStore.add_documents: nothing for an empty list, else the chunks' ids are added
add_documents(coll, chunks, fail) ==
    IF chunks = << >> THEN Return(coll)
    ELSE IF fail
    THEN Raise(<< "Error adding documents to vector store: ", "Exception" >>)
    ELSE Return(coll \cup Range(chunks))

\* VectorStore.search: no result from an empty collection, else the first
\* min(k, count) chunks of the index's ranking for the query
vector_store_search(coll, k, answer) ==
    LET count == Cardinality(coll)
    IN IF count = 0 THEN Return(<< >>)
       ELSE IF answer.fail
       THEN Raise(<< "Error searching vector store: ", "Error generating embeddings: " >>)
       ELSE Return(SubSeq(answer.ranking, 1, Min(k, count)))

\* the text of the model's answer: response.text or a fixed apology
ResponseText(llm) ==
    IF llm = "empty" THEN << "I apologize, but I couldn't generate a response." >>
    ELSE << "response.text" >>

DocumentSource(doc) ==
    [type |-> "document", filename |-> doc.filename, chunk_index |-> doc.chunk_index]
WebSource(result) ==
    [type |-> "web", title |-> result.title, rank |-> result.rank,
     source_type |-> result.source]
DocumentSources(docs) == [i \in DOMAIN docs |-> DocumentSource(docs[i])]
WebSources(results) == [i \in DOMAIN results |-> WebSource(results[i])]

\* LLMHandler.generate_document_response
generate_document_response(relevant_docs, llm) ==
    IF relevant_docs = << >>
    THEN Return([response |-> << "I couldn't find relevant information in your documents for this query." >>,
                 sources |-> << >>])
    ELSE IF llm = "fail"
    THEN Raise(<< "Error generating document response: ", "Exception" >>)
    ELSE Return([response |-> ResponseText(llm), sources |-> DocumentSources(relevant_docs)])

\* LLMHandler.generate_web_response
generate_web_response(web_results, llm) ==
    IF web_results = << >>
    THEN Return([response |-> << "I couldn't find relevant information on the web for this query." >>,
                 sources |-> << >>])
    ELSE IF llm = "fail"
    THEN Raise(<< "Error generating web response: ", "Exception" >>)
    ELSE Return([response |-> ResponseText(llm), sources |-> WebSources(web_results)])

\* mutant: web sources are listed before document sources
generate_hybrid_response_web_first(relevant_docs, web_results, llm) ==
    IF llm = "fail"
    THEN Raise(<< "Error generating hybrid response: ", "Exception" >>)
    ELSE Return([response |-> ResponseText(llm),
                 sources |-> WebSources(web_results) \o DocumentSources(relevant_docs)])

\* LLMHandler.generate_hybrid_response: document sources, then web sources
generate_hybrid_response(relevant_docs, web_results, llm) ==
    IF llm = "fail"
    THEN Raise(<< "Error generating hybrid response: ", "Exception" >>)
    ELSE Return([response |-> ResponseText(llm),
                 sources |-> DocumentSources(relevant_docs) \o WebSources(web_results)])

(***************************************************************************)
(* handle_user_query.  A run records the handler's locals and the calls it *)
(* made, in order.                                                         *)
(***************************************************************************)
NoResponse == [response |-> << >>, sources |-> << >>]
\* one call of the handler: the function, its k argument (0 when it has none),
\* and whether it raised
Call(fn, k, raised) == [fn |-> fn, k |-> k, raised |-> raised]

NoDocsNoWebMessage ==
    << "I couldn't find relevant information in your documents and web search is not available. Please upload more documents or enable SERPER_API_KEY for web search." >>
WebUnavailableMessage ==
    << "Web search is currently unavailable (SERPER_API_KEY not set). Please enable it in your environment to allow web-based answers." >>

\* mutant: the web search is taken to be usable without looking
WebSearchUsable_unchecked == TRUE

\* st.session_state.get('web_search_available') and st.session_state.web_search is not None
WebSearchUsable == web_search_available = "True" /\ web_search # NoneValue

\* an exception leaves the try block
Fail(run, error) == [run EXCEPT !.outcome = "error", !.error = error]
\* response_data is assigned
Respond(run, data) == [run EXCEPT !.outcome = "response", !.response_data = data]

\* mutant: a document search that raised is tried a second time
SearchDocuments_retry(run, k, answer) ==
    LET r == vector_store_search(collection, k, answer)
        called == [run EXCEPT !.calls = Append(@, Call("vector_store.search", k, r.raised))]
        again == [called EXCEPT !.calls = Append(@, Call("vector_store.search", k, r.raised))]
    IN IF r.raised THEN Fail(again, r.error)
       ELSE [called EXCEPT !.relevant_docs = r.value]

\* relevant_docs = st.session_state.vector_store.search(user_input, k=k)
SearchDocuments(run, k, answer) ==
    LET r == vector_store_search(collection, k, answer)
        called == [run EXCEPT !.calls = Append(@, Call("vector_store.search", k, r.raised))]
    IN IF r.raised THEN Fail(called, r.error)
       ELSE [called EXCEPT !.relevant_docs = r.value]

\* mutant: an exception of the web search is dropped and the results stay empty
SearchWeb_swallow(run, data) ==
    LET r == IF web_search.class = "WebSearch" THEN web_search_search(web_search, data)
             ELSE Raise(<< "'NoneType' object has no attribute 'search'" >>)
        called == [run EXCEPT !.calls = Append(@, Call("web_search.search", 0, r.raised))]
    IN IF r.raised THEN called ELSE [called EXCEPT !.web_results = r.value]

\* web_results = st.session_state.web_search.search(user_input); on None the
\* attribute lookup raises
SearchWeb(run, data) ==
    LET r == IF web_search.class = "WebSearch" THEN web_search_search(web_search, data)
             ELSE Raise(<< "'NoneType' object has no attribute 'search'" >>)
        called == [run EXCEPT !.calls = Append(@, Call("web_search.search", 0, r.raised))]
    IN IF r.raised THEN Fail(called, r.error)
       ELSE [called EXCEPT !.web_results = r.value]

\* response_data = st.session_state.llm_handler.generate_...(...)
Generate(run, fn, r) ==
    LET called == [run EXCEPT !.calls = Append(@, Call(fn, 0, r.raised))]
    IN IF r.raised THEN Fail(called, r.error) ELSE Respond(called, r.value)

\* mutant: the web search is called without the availability test
WebOrSentinel_always_search(run, data, llm, sentinel) ==
    LET searched == SearchWeb(run, data)
    IN IF searched.outcome = "error" THEN searched
       ELSE Generate(searched, "generate_web_response",
                     generate_web_response(searched.web_results, llm))

\* the web search and the web response, or the sentinel when web search is unusable
WebOrSentinel(run, data, llm, sentinel) ==
    IF WebSearchUsable
    THEN LET searched == SearchWeb(run, data)
         IN IF searched.outcome = "error" THEN searched
            ELSE Generate(searched, "generate_web_response",
                          generate_web_response(searched.web_results, llm))
    ELSE Respond(run, [response |-> sentinel, sources |-> << >>])

\* mutant: no fallback to the web when the documents give nothing
DocumentRoute_no_fallback(run, answer, data, llm) ==
    LET searched == SearchDocuments(run, 3, answer)
    IN IF searched.outcome = "error" THEN searched
       ELSE Generate(searched, "generate_document_response",
                     generate_document_response(searched.relevant_docs, llm))

\* route 'document'
DocumentRoute(run, answer, data, llm) ==
    LET searched == SearchDocuments(run, 3, answer)
    IN IF searched.outcome = "error" THEN searched
       ELSE IF searched.relevant_docs # << >>
       THEN Generate(searched, "generate_document_response",
                     generate_document_response(searched.relevant_docs, llm))
       ELSE WebOrSentinel(searched, data, llm, NoDocsNoWebMessage)

\* mutant: the web route looks into the documents before it searches the web
WebRoute_documents_first(run, data, llm) ==
    LET searched == SearchDocuments(run, 3, [fail |-> FALSE, ranking |-> << >>])
    IN WebOrSentinel(searched, data, llm, WebUnavailableMessage)

\* route 'web'
WebRoute(run, data, llm) == WebOrSentinel(run, data, llm, WebUnavailableMessage)

\* route 'hybrid'
HybridRoute(run, answer, data, llm) ==
    LET searched == SearchDocuments(run, 2, answer)
        both == IF WebSearchUsable THEN SearchWeb(searched, data) ELSE searched
    IN IF searched.outcome = "error" THEN searched
       ELSE IF both.outcome = "error" THEN both
       ELSE Generate(both, "generate_hybrid_response",
                     generate_hybrid_response(both.relevant_docs, both.web_results, llm))

\* the queries typed into the chat: one for each branch of the router
SessionQueries ==
    { Vocabulary[6],
      Join(<< Vocabulary[1], Vocabulary[2] >>),
      Join(<< Vocabulary[2], Vocabulary[4] >>),
      Vocabulary[3] }

\* route_query on the session's queries, evaluated once: the router object is
\* never modified, so every call on it with the same arguments computes the same
RouteMemo ==
    {<< q, h, route_query(QueryRouter, q, h) >> : q \in SessionQueries, h \in BOOLEAN}

\* mutant: a conversation already under way counts as having documents
RouteQueryCall_history(self, query, has_documents) ==
    (CHOOSE m \in RouteMemo :
        m[1] = query /\ m[2] = (has_documents \/ chat_history # << >>))[3]

\* self.route_query(query, has_documents)
RouteQueryCall(self, query, has_documents) ==
    IF self = QueryRouter /\ query \in SessionQueries
    THEN (CHOOSE m \in RouteMemo : m[1] = query /\ m[2] = has_documents)[3]
    ELSE route_query(self, query, has_documents)

\* lines 156-161: the routing decision and the locals before retrieval
RouteStep(user_input) ==
    LET has_documents == Len(processed_docs) > 0
    IN [query |-> user_input, has_documents |-> has_documents,
        route_decision |-> RouteQueryCall(query_router, user_input, has_documents),
        calls |-> << Call("route_query", 0, FALSE) >>,
        relevant_docs |-> << >>, web_results |-> << >>,
        outcome |-> "none", response_data |-> NoResponse, error |-> << >>]

\* lines 163-205: retrieval and response for the decided route
Retrieve(run, answer, data, llm) ==
    IF run.route_decision.route = "document" THEN DocumentRoute(run, answer, data, llm)
    ELSE IF run.route_decision.route = "web" THEN WebRoute(run, data, llm)
    ELSE HybridRoute(run, answer, data, llm)

UserMessage(user_input) ==
    [role |-> "user", content |-> user_input, timestamp |-> "current_time"]

\* mutant: the error entry carries the route as well
AssistantMessage_error_with_route(run) ==
    IF run.outcome = "response"
    THEN [role |-> "assistant", content |-> run.response_data.response,
          sources |-> run.response_data.sources, route |-> run.route_decision.route,
          timestamp |-> "current_time"]
    ELSE [role |-> "assistant",
          content |-> << "Sorry, I encountered an error: " >> \o run.error,
          route |-> run.route_decision.route,
          timestamp |-> "current_time"]

\* the assistant entry: the response with its sources and route, or the error message
AssistantMessage(run) ==
    IF run.outcome = "response"
    THEN [role |-> "assistant", content |-> run.response_data.response,
          sources |-> run.response_data.sources, route |-> run.route_decision.route,
          timestamp |-> "current_time"]
    ELSE [role |-> "assistant",
          content |-> << "Sorry, I encountered an error: " >> \o run.error,
          timestamp |-> "current_time"]

(***************************************************************************)
(* The session: st.session_state, the persistent index and the files.      *)
(***************************************************************************)
Absent == [class |-> "absent"]
NoRun == [query |-> << >>, has_documents |-> FALSE, route_decision |-> NoResult,
          calls |-> << >>, relevant_docs |-> << >>, web_results |-> << >>,
          outcome |-> "none", response_data |-> NoResponse, error |-> << >>]

\* the names of the uploaded files, in the order the index ranks them by default
FileNames == << "a.pdf", "b.pdf" >>

\* the numbers of chunks process_pdf returns for a file
ChunkCounts == {0, 2}

\* the chunks process_pdf returns for a file: chunk_index 0 .. n-1
Chunks(filename, n) == [i \in 1..n |-> [filename |-> filename, chunk_index |-> i - 1]]

Reverse(s) == [i \in DOMAIN s |-> s[Len(s) + 1 - i]]

\* the orders in which the index ranks its chunks for a query: by file and
\* chunk_index, or the reverse
Rankings(coll) ==
    LET InColl(c) == c \in coll
        most == CHOOSE n \in ChunkCounts : \A m \in ChunkCounts : m <= n
        all == Chunks(FileNames[1], most) \o Chunks(FileNames[2], most)
        ranked == SelectSeq(all, InColl)
    IN {ranked, Reverse(ranked)}

\* what the embedding service and the index answer to a search
Answers(coll) ==
    {[fail |-> TRUE, ranking |-> << >>]}
      \cup {[fail |-> FALSE, ranking |-> r] : r \in Rankings(coll)}

\* what the search API answers: an error, or data with organic results, an
\* answer box and a knowledge graph
WebData ==
    {[fail |-> f, organic |-> 0, answerBox |-> FALSE, knowledgeGraph |-> FALSE] :
        f \in {"request", "other"}}
      \cup {[fail |-> "none", organic |-> 0, answerBox |-> FALSE, knowledgeGraph |-> FALSE],
            [fail |-> "none", organic |-> 2, answerBox |-> FALSE, knowledgeGraph |-> FALSE],
            [fail |-> "none", organic |-> 1, answerBox |-> TRUE, knowledgeGraph |-> TRUE]}

\* what process_pdf and add_documents do with one file
FileOutcomes ==
    {[kind |-> "ok", chunks |-> n] : n \in ChunkCounts}
      \cup {[kind |-> "pdf_error", chunks |-> 0]}
      \cup {[kind |-> "add_error", chunks |-> n] : n \in ChunkCounts \ {0}}

Init ==
    /\ chat_history = << >>
    /\ processed_docs = << >>
    /\ components_initialized = FALSE
    /\ query_router = Absent
    /\ web_search = Absent
    /\ web_search_available = "unset"
    /\ collection = {}
    /\ temp_files = {}
    /\ last = NoRun
    /\ routing_log = << >>
    /\ r_query = << >>
    /\ r_has_documents = FALSE
    /\ r_result = NoResult
    /\ p_processor = DocumentProcessor(1000, 200)
    /\ p_pages = << >>
    /\ p_result = NoChunks

\* main(): initialize_session_state and the construction of the components,
\* which stops the script when VectorStore() or LLMHandler() raises
Main ==
    /\ ~components_initialized
    /\ \E init_fail \in {"none", "vector_store", "llm_handler"}, api_key \in ApiKeys :
          LET made == WebSearch(api_key)
          IN /\ IF init_fail = "vector_store"
                THEN UNCHANGED << query_router, web_search, web_search_available >>
                ELSE /\ query_router' = QueryRouter
                     /\ web_search' = IF made.raised THEN NoneValue ELSE made.value
                     /\ web_search_available' = IF made.raised THEN "False" ELSE "True"
             /\ components_initialized' = (init_fail = "none")
    /\ UNCHANGED << chat_history, processed_docs, collection, temp_files, last,
                    routing_log, r_query, r_has_documents, r_result,
                    p_processor, p_pages, p_result >>

RECURSIVE ProcessFiles(_, _, _)
\* the loop of process_documents: the state after the files, or at the first exception
ProcessFiles(files, outcomes, st) ==
    IF files = << >> THEN st
    ELSE LET name == Head(files)
             o == Head(outcomes)
             written == [st EXCEPT !.temp_files = @ \cup {name}]
             added == add_documents(st.collection, Chunks(name, o.chunks), o.kind = "add_error")
         IN IF o.kind = "pdf_error" \/ added.raised
            THEN [written EXCEPT !.raised = TRUE]
            ELSE ProcessFiles(Tail(files), Tail(outcomes),
                     [collection |-> added.value,
                      processed_docs |-> Append(st.processed_docs,
                                                [filename |-> name, chunks |-> o.chunks]),
                      temp_files |-> written.temp_files \ {name},
                      raised |-> FALSE])

\* process_documents(uploaded_files)
process_documents ==
    /\ components_initialized
    /\ \E n \in 1..MaxDocs :
          /\ Len(processed_docs) + n <= MaxDocs
          /\ \E files \in [1..n -> Range(FileNames)], outcomes \in [1..n -> FileOutcomes] :
                LET st == ProcessFiles(files, outcomes,
                              [collection |-> collection, processed_docs |-> processed_docs,
                               temp_files |-> temp_files, raised |-> FALSE])
                IN /\ collection' = st.collection
                   /\ processed_docs' = st.processed_docs
                   /\ temp_files' = st.temp_files
    /\ UNCHANGED << chat_history, components_initialized, query_router, web_search,
                    web_search_available, last, routing_log,
                    r_query, r_has_documents, r_result,
                    p_processor, p_pages, p_result >>

\* clear_documents(), offered when processed_docs is not empty
clear_documents ==
    /\ components_initialized
    /\ processed_docs # << >>
    /\ \E fail \in BOOLEAN :
          IF fail THEN UNCHANGED << collection, processed_docs >>
          ELSE collection' = {} /\ processed_docs' = << >>
    /\ UNCHANGED << chat_history, components_initialized, query_router, web_search,
                    web_search_available, temp_files, last, routing_log,
                    r_query, r_has_documents, r_result,
                    p_processor, p_pages, p_result >>

\* handle_user_query(user_input)
HandleUserQuery ==
    /\ components_initialized
    /\ Len(routing_log) < MaxQueries
    /\ \E user_input \in SessionQueries :
          LET routed == RouteStep(user_input)
          IN \E answer \in Answers(collection), data \in WebData,
                llm \in {"text", "empty", "fail"} :
                LET run == Retrieve(routed, answer, data, llm)
                IN /\ last' = run
                   /\ chat_history' = chat_history \o << UserMessage(user_input),
                                                         AssistantMessage(run) >>
                   /\ routing_log' = Append(routing_log,
                                            [query |-> run.query,
                                             has_documents |-> run.has_documents,
                                             decision |-> run.route_decision])
    /\ UNCHANGED << processed_docs, components_initialized, query_router, web_search,
                    web_search_available, collection, temp_files,
                    r_query, r_has_documents, r_result,
                    p_processor, p_pages, p_result >>

\* a new browser session: st.session_state starts empty, the index and the files stay
NewSession ==
    /\ chat_history' = << >>
    /\ processed_docs' = << >>
    /\ components_initialized' = FALSE
    /\ query_router' = Absent
    /\ web_search' = Absent
    /\ web_search_available' = "unset"
    /\ last' = NoRun
    /\ UNCHANGED << collection, temp_files, routing_log, r_query, r_has_documents, r_result,
                    p_processor, p_pages, p_result >>

Next ==
    \/ Main
    \/ process_documents
    \/ clear_documents
    \/ HandleUserQuery
    \/ NewSession

Spec == Init /\ [][Next]_vars

(***************************************************************************)
(* Router harness: one call of route_query on drawn arguments.             *)
(***************************************************************************)
InitRouter ==
    /\ r_query \in Queries
    /\ r_has_documents \in BOOLEAN
    /\ r_result = NoResult
    /\ p_processor = DocumentProcessor(1000, 200)
    /\ p_pages = << >>
    /\ p_result = NoChunks
    /\ query_router = QueryRouter
    /\ chat_history = << >>
    /\ processed_docs = << >>
    /\ components_initialized = FALSE
    /\ web_search = Absent
    /\ web_search_available = "unset"
    /\ collection = {}
    /\ temp_files = {}
    /\ last = NoRun
    /\ routing_log = << >>

CallRouteQuery ==
    /\ r_result = NoResult
    /\ r_result' = route_query(query_router, r_query, r_has_documents)
    /\ UNCHANGED << r_query, r_has_documents, query_router, chat_history, processed_docs,
                    components_initialized, web_search, web_search_available,
                    collection, temp_files, last, routing_log,
                    p_processor, p_pages, p_result >>

NextRouter == CallRouteQuery

SpecRouter == InitRouter /\ [][NextRouter]_vars

(***************************************************************************)
(* Chunker harness: one call of process_pdf on drawn page texts, by a      *)
(* DocumentProcessor of a drawn configuration.                             *)
(***************************************************************************)
\* the configurations: the default one, small ones that split short texts, and
\* one whose chunks are longer than the 200 characters searched for a sentence end
Processors ==
    {DocumentProcessor(1000, 200), DocumentProcessor(4, 0),
     DocumentProcessor(4, 2), DocumentProcessor(8, 3), DocumentProcessor(220, 20)}

Alphabet2 == LowerCase \o LowerCase
\* the lines a page is made of: blank, with sentence ends, a header, a long
\* line, and a line with spaces around it
LineVocabulary ==
    << << >>,
       << "A", "b", ".", " ", "c", "!" >>,
       << "A", "B", "C" >>,
       Alphabet2,
       << " ", "d", " " >> >>

\* a drawn document: lines, and 0 for a page break
ItemSequences == UNION {[1..n -> 0..Len(LineVocabulary)] : n \in 0..MaxItems}

RECURSIVE JoinLines(_)
\* "\n".join(lines)
JoinLines(lines) ==
    IF lines = << >> THEN << >>
    ELSE IF Len(lines) = 1 THEN lines[1]
    ELSE lines[1] \o << "\n" >> \o JoinLines(Tail(lines))

\* the page texts of a drawn document: no page when nothing is drawn, else the
\* lines between the page breaks
PagesOf(items) ==
    LET breaks == {i \in DOMAIN items : items[i] = 0}
        n == Cardinality(breaks)
        at(k) == IF k = 0 THEN 0
                 ELSE IF k = n + 1 THEN Len(items) + 1
                 ELSE CHOOSE i \in breaks : Cardinality({j \in breaks : j < i}) = k - 1
        page(k) == SubSeq(items, at(k - 1) + 1, at(k) - 1)
    IN IF items = << >> THEN << >>
       ELSE [k \in 1..(n + 1) |->
                JoinLines([i \in DOMAIN page(k) |-> LineVocabulary[page(k)[i]]])]

Repeat(c, n) == [i \in 1..n |-> c]

\* documents of particular shapes: each kind of header after a long line; a
\* header after 50 and after 51 characters of text; a header kept as content;
\* two sentences ending alike in one window;
\* a text repeated on two pages, once with a space at the end of a line
SampleDocuments ==
    { << Alphabet2 \o << "\n", "1", ".", " ", "A", "i", "m", "s", "\n", "t", "e", "x", "t" >> >>,
      << Alphabet2 \o << "\n", "K", "e", "y", " ", "P", "o", "i", "n", "t", "s", ":", "\n", "t", "e", "x", "t" >> >>,
      << Alphabet2 \o << "\n", "*", "*", "b", "*", "*", "\n", "t", "e", "x", "t" >> >>,
      << Alphabet2 \o << "\n", "#", "#", " ", "t", "\n", "t", "e", "x", "t" >> >>,
      << Alphabet2 \o << "\n", "#", "t", "a", "g", "\n", "t", "e", "x", "t" >> >>,
      << << "a", ".", " ", "b", ".", " ", "c", "c", "c", "c" >> >>,
      << Repeat("x", 41) \o << "\n", "A", "B", "C", "\n", "t", "e", "x", "t" >> >>,
      << Repeat("x", 42) \o << "\n", "A", "B", "C", "\n", "t", "e", "x", "t" >> >>,
      << << "S", "U", "M", "M", "A", "R", "Y", "\n" >> \o Alphabet2
            \o << "\n", "#", "#", " ", "t", "\n", "*", "*", "b", "*", "*", "\n", "t", "e", "x", "t" >> >>,
      << Repeat("u", 60) \o << "\n" >> \o Repeat("v", 60),
         << "S", "U", "M", "M", "A", "R", "Y", "\n" >> \o Repeat("w", 100) \o << "\n" >>
            \o Repeat("u", 60) \o << " ", "\n" >> \o Repeat("v", 60) >> }

Documents == {PagesOf(items) : items \in ItemSequences} \cup SampleDocuments

\* documents longer than 220 characters, with sentence ends more than 200
\* characters before the end of the first chunk of 220
LongDocuments ==
    { << << "A", "b", ".", " ", "c", "!", " " >> \o Repeat("x", 250) >>,
      << << "A", "b", ".", " ", "c", "!", " " >> \o Repeat("x", 100) \o << ".", " " >>
            \o Repeat("y", 200) >> }

\* the text of the document is at most 16 times as long as a chunk: a
\* configuration is drawn with the documents it cuts into a few chunks
FewChunks(pr, pages) == Len(FullText(pages, 1)) <= 16 * pr.chunk_size

InitChunker ==
    /\ p_processor \in Processors
    /\ p_pages \in Documents \cup LongDocuments
    /\ FewChunks(p_processor, p_pages)
    /\ p_result = NoChunks
    /\ r_query = << >>
    /\ r_has_documents = FALSE
    /\ r_result = NoResult
    /\ query_router = Absent
    /\ chat_history = << >>
    /\ processed_docs = << >>
    /\ components_initialized = FALSE
    /\ web_search = Absent
    /\ web_search_available = "unset"
    /\ collection = {}
    /\ temp_files = {}
    /\ last = NoRun
    /\ routing_log = << >>

\* chunks = doc_processor.process_pdf(temp_path, uploaded_file.name)
CallProcessPdf ==
    /\ ~p_result.called
    /\ p_result' = [called |-> TRUE] @@ process_pdf(p_processor, p_pages, FileNames[1])
    /\ UNCHANGED << p_processor, p_pages, r_query, r_has_documents, r_result,
                    query_router, chat_history, processed_docs, components_initialized,
                    web_search, web_search_available, collection, temp_files, last,
                    routing_log >>

NextChunker == CallProcessPdf

SpecChunker == InitChunker /\ [][NextChunker]_vars


(***************************************************************************)
(* Properties of the session, under Spec.                                  *)
(***************************************************************************)
Handled == last # NoRun
LastEntry == chat_history[Len(chat_history)]
CallsTo(run, fn) == {i \in DOMAIN run.calls : run.calls[i].fn = fn}
ErrorPrefix == "Sorry, I encountered an error: "
\* the run took route 'document' and its search with k = 3 returned nothing
DocumentSearchEmpty(run) ==
    /\ run.route_decision.route = "document"
    /\ \E i \in DOMAIN run.calls : run.calls[i] = Call("vector_store.search", 3, FALSE)
    /\ run.relevant_docs = << >>
AllOfType(sources, type) == \A i \in DOMAIN sources : sources[i].type = type

C5_FallbackToWeb ==
    (Handled /\ DocumentSearchEmpty(last) /\ WebSearchUsable) =>
        /\ Cardinality(CallsTo(last, "web_search.search")) = 1
        /\ last.outcome = "response" => AllOfType(last.response_data.sources, "web")

\* a fallback that answered from two web results
C5_Witness ==
    /\ Handled /\ DocumentSearchEmpty(last) /\ WebSearchUsable
    /\ last.outcome = "response"
    /\ Len(last.response_data.sources) >= 2
    /\ AllOfType(last.response_data.sources, "web")

\* C6: without a usable web search, route 'web' and route 'document' with an
\* empty search result end in a response that carries an explanatory message
\* and no sources; web_search.search is not called, nothing is raised, and the
\* chat entry is a response entry, not an error entry.
C6_SentinelWithoutWeb ==
    (Handled /\ ~WebSearchUsable
       /\ (last.route_decision.route = "web" \/ DocumentSearchEmpty(last))) =>
        /\ last.outcome = "response"
        /\ last.error = << >>
        /\ last.response_data.response =
              IF last.route_decision.route = "web" THEN WebUnavailableMessage
              ELSE NoDocsNoWebMessage
        /\ last.response_data.sources = << >>
        /\ CallsTo(last, "web_search.search") = {}
        /\ "route" \in DOMAIN LastEntry
        /\ LastEntry.content = last.response_data.response
        /\ Head(LastEntry.content) # ErrorPrefix

\* both sentinels in one conversation: the web route, then the empty document search
C6_Witness ==
    /\ ~WebSearchUsable
    /\ Len(chat_history) = 4
    /\ chat_history[2].content = WebUnavailableMessage
    /\ chat_history[4].content = NoDocsNoWebMessage
    /\ DocumentSearchEmpty(last)

\* the response or the chat entry says that web search was unavailable: a field
\* for it, or a response that differs from the one for a web search without results
AvailableWebSignalled ==
    \/ "available_web" \in DOMAIN last.response_data
    \/ "available_web" \in DOMAIN LastEntry
    \/ \A llm \in {"text", "empty"} :
          last.response_data #
              generate_hybrid_response(last.relevant_docs, << >>, llm).value

\* C7: on route 'hybrid' without a usable web search the document search with
\* k = 2 is still made, the response has only 'document' sources, the caller is
\* told that web search was unavailable, and the missing web search raises nothing.
C7_HybridDegradation ==
    (Handled /\ last.route_decision.route = "hybrid" /\ ~WebSearchUsable) =>
        /\ \E i \in DOMAIN last.calls :
              last.calls[i].fn = "vector_store.search" /\ last.calls[i].k = 2
        /\ CallsTo(last, "web_search.search") = {}
        /\ last.outcome = "response" =>
              /\ AllOfType(last.response_data.sources, "document")
              /\ AvailableWebSignalled

\* C8: the sources of a hybrid response are the document results in the order
\* of the document search, followed by the web results in the order of the web
\* search.
C8_MergeOrder ==
    (Handled /\ last.route_decision.route = "hybrid" /\ last.outcome = "response") =>
        LET sources == last.response_data.sources
            n == Len(last.relevant_docs)
            m == Len(last.web_results)
        IN /\ Len(sources) = n + m
           /\ \A i \in 1..n :
                 /\ sources[i].type = "document"
                 /\ sources[i].filename = last.relevant_docs[i].filename
                 /\ sources[i].chunk_index = last.relevant_docs[i].chunk_index
           /\ \A j \in 1..m :
                 /\ sources[n + j].type = "web"
                 /\ sources[n + j].title = last.web_results[j].title
                 /\ sources[n + j].rank = last.web_results[j].rank

\* a hybrid response from two document results, ranked against their chunk
\* order, and at least two web results
C8_Witness ==
    /\ Handled /\ last.route_decision.route = "hybrid" /\ last.outcome = "response"
    /\ Len(last.relevant_docs) = 2
    /\ last.relevant_docs[1].chunk_index > last.relevant_docs[2].chunk_index
    /\ Len(last.web_results) >= 2
    /\ last.response_data.sources[1].type = "document"
    /\ last.response_data.sources[3].type = "web"

\* the message prefixes by which an exception names the collaborator that raised it
StagePrefixes(fn) ==
    IF fn = "vector_store.search" THEN {"Error searching vector store: "}
    ELSE {"Web search API error: ", "Web search error: "}

C10_WebSearchGuarded ==
    /\ (web_search_available = "True") <=> (web_search.class = "WebSearch")
    /\ web_search.class = "WebSearch" => ~Falsy(web_search.api_key)
    /\ Handled =>
          /\ CallsTo(last, "web_search.search") # {} =>
                (web_search_available = "True" /\ web_search.class = "WebSearch")
          /\ last.outcome = "error" =>
                Head(last.error) \notin
                    {"'NoneType' object has no attribute 'search'",
                     "SERPER_API_KEY environment variable is required"}

\* a query on route 'hybrid' answered in a session that was built without an API key
C10_Witness ==
    /\ Handled
    /\ web_search = NoneValue
    /\ web_search_available = "False"
    /\ last.route_decision.route = "hybrid"
    /\ last.outcome = "response"

(***************************************************************************)
(* Properties of the router, under SpecRouter.                             *)
(***************************************************************************)
Routed == r_result # NoResult
WebScoreOf(q) == calculate_web_score(query_router, lower(q))
DocumentScoreOf(q) == calculate_document_score(query_router, lower(q))

\* C1: without documents every query is routed to 'web' with confidence 1.0,
\* whatever its web and document scores are.
C1_NoCorpusShortcut ==
    (Routed /\ ~r_has_documents) =>
        (r_result.route = "web" /\ r_result.confidence = Unit)

\* a query that the scores alone would send to the documents, routed without documents
C1_Witness ==
    /\ Routed /\ ~r_has_documents
    /\ WebScoreOf(r_query) = 0
    /\ DocumentScoreOf(r_query) = Unit
    /\ r_result.route = "web"

\* C2: with documents the first matching rule decides: web score > 0.7 gives
\* 'web'; else document score > 0.6 gives 'document'; else both scores > 0.4
\* give 'hybrid' with the average of the two scores as confidence; else
\* 'document' with confidence 0.5.
C2_DecisionOrder ==
    (Routed /\ r_has_documents) =>
        LET w == WebScoreOf(r_query)
            d == DocumentScoreOf(r_query)
        IN IF w > Dec(7) THEN r_result.route = "web"
           ELSE IF d > Dec(6) THEN r_result.route = "document"
           ELSE IF w > Dec(4) /\ d > Dec(4)
           THEN r_result.route = "hybrid" /\ 2 * r_result.confidence = w + d
           ELSE r_result.route = "document" /\ r_result.confidence = Dec(5)

\* a query with web score > 0.7 and document score 1.0 is routed to 'web'
C2_Witness ==
    /\ Routed /\ r_has_documents
    /\ WebScoreOf(r_query) > Dec(7)
    /\ DocumentScoreOf(r_query) = Unit
    /\ r_result.route = "web"

\* C3: every call returns one of the three routes with a confidence in [0, 1],
\* and both scores lie in [0, 1].
C3_TotalAndBounded ==
    LET w == WebScoreOf(r_query)
        d == DocumentScoreOf(r_query)
    IN /\ Routed =>
             /\ r_result.route \in {"document", "web", "hybrid"}
             /\ 0 <= r_result.confidence /\ r_result.confidence <= Unit
       /\ 0 <= w /\ w <= Unit
       /\ 0 <= d /\ d <= Unit

\* a query whose document increments add up to more than 1.0 has been routed
C3_Witness ==
    /\ Routed /\ r_has_documents
    /\ document_score_sum(query_router, lower(r_query)) > Unit
    /\ r_result.route = "document"
    /\ r_result.confidence = Unit

\* C19: for one query the handler calls route_query exactly once, the document
\* search at most once and the web search at most once, and calls nothing
\* after a call that raised: nothing is retried.
C19_NoRetries ==
    Handled =>
        /\ Cardinality(CallsTo(last, "route_query")) = 1
        /\ last.calls[1].fn = "route_query"
        /\ Cardinality(CallsTo(last, "vector_store.search")) <= 1
        /\ Cardinality(CallsTo(last, "web_search.search")) <= 1
        /\ \A i \in DOMAIN last.calls : last.calls[i].raised => i = Len(last.calls)

\* a query whose document search found nothing and whose web search raised:
\* three calls, the last one raised, and the error is the answer
C19_Witness ==
    /\ Handled /\ last.outcome = "error"
    /\ Len(last.calls) = 3
    /\ last.calls[2] = Call("vector_store.search", 3, FALSE)
    /\ last.calls[3] = Call("web_search.search", 0, TRUE)

\* the calls of the latest query respect the isolation of the routes
RouteIsolated ==
    Handled =>
        /\ last.route_decision.route = "web" => CallsTo(last, "vector_store.search") = {}
        /\ (last.route_decision.route = "document" /\ last.relevant_docs # << >>) =>
              CallsTo(last, "web_search.search") = {}

\* C24: on a 'web' route the document index is not searched, and on a
\* 'document' route whose search returned a result the web search is not
\* called; a query leaves the index and the web search object as they were.
C24_RouteIsolation ==
    /\ []RouteIsolated
    /\ [][Len(routing_log') > Len(routing_log) =>
            /\ collection' = collection
            /\ web_search' = web_search
            /\ web_search_available' = web_search_available]_vars

\* a query routed to the web by its score while the index holds chunks: the
\* web search is the only retrieval call
C24_Witness ==
    /\ Handled /\ last.has_documents /\ collection # {}
    /\ last.route_decision.route = "web"
    /\ last.route_decision.confidence < Unit
    /\ Len(last.calls) >= 2
    /\ last.calls[2].fn = "web_search.search"
    /\ CallsTo(last, "vector_store.search") = {}

\* C25: after any sequence of uploads, clears and session starts, the
\* has_documents flag passed to the router (processed_docs is not empty) is
\* true exactly when the persistent index holds at least one chunk.
C25_CorpusFlagConsistency ==
    (Len(processed_docs) > 0) <=> (collection # {})

\* chat_history alternates user and assistant entries, a user entry first; an
\* assistant entry is a response with sources and route or an error message
\* with neither, and the last one is the outcome of the latest query
AlternatingHistory ==
    /\ Len(chat_history) % 2 = 0
    /\ \A i \in DOMAIN chat_history :
          LET entry == chat_history[i]
          IN IF i % 2 = 1
             THEN entry.role = "user" /\ DOMAIN entry = {"role", "content", "timestamp"}
             ELSE /\ entry.role = "assistant"
                  /\ \/ DOMAIN entry = {"role", "content", "sources", "route", "timestamp"}
                     \/ /\ DOMAIN entry = {"role", "content", "timestamp"}
                        /\ entry.content[1] = ErrorPrefix
    /\ Handled =>
          /\ chat_history # << >>
          /\ chat_history[Len(chat_history) - 1].content = last.query
          /\ ("route" \in DOMAIN LastEntry) <=> (last.outcome = "response")

\* C26: chat_history is a strict alternation of user and assistant entries
\* starting with a user entry; every handled query appends one user message and
\* then one assistant message, whether it was answered, answered by a sentinel
\* or ended by an exception, the entry of an exception being the error message
\* without a route.
C26_ChatHistoryShape ==
    /\ []AlternatingHistory
    /\ [][Len(routing_log') > Len(routing_log) =>
            /\ Len(chat_history') = Len(chat_history) + 2
            /\ SubSeq(chat_history', 1, Len(chat_history)) = chat_history]_vars

\* a conversation of two queries: the first answered with its route, the
\* second ended by an exception of a collaborator
C26_Witness ==
    /\ Len(chat_history) = 4
    /\ chat_history[2].role = "assistant" /\ "route" \in DOMAIN chat_history[2]
    /\ chat_history[4].role = "assistant" /\ "route" \notin DOMAIN chat_history[4]
    /\ Handled /\ last.outcome = "error"
    /\ \E i \in DOMAIN last.calls : last.calls[i].raised

\* the names of the files in processed_docs
Listed(docs) == {docs[i].filename : i \in DOMAIN docs}

\* C27: when process_documents returns, with every file processed or after an
\* exception, none of the temporary files it wrote remains, and the files it
\* added to processed_docs are exactly those whose chunks it added to the
\* index.
C27_UploadCleanup ==
    [][(temp_files' # temp_files \/ Len(processed_docs') > Len(processed_docs)) =>
          /\ temp_files' \subseteq temp_files
          /\ \A c \in collection' \ collection :
                \E i \in (DOMAIN processed_docs') \ (DOMAIN processed_docs) :
                    processed_docs'[i].filename = c.filename
          /\ \A i \in (DOMAIN processed_docs') \ (DOMAIN processed_docs) :
                Chunks(processed_docs'[i].filename, processed_docs'[i].chunks) \in Seq(collection')]_vars

\* "What is the latest stock price of Acme Corp?"
StockPriceQuery ==
    <<"W","h","a","t"," ","i","s"," ","t","h","e"," ","l","a","t","e","s","t"," ",
      "s","t","o","c","k"," ","p","r","i","c","e"," ","o","f"," ","A","c","m","e"," ",
      "C","o","r","p","?">>

\* C18: for the query "What is the latest stock price of Acme Corp?" with
\* documents present, _calculate_web_score is greater than 0.7 and route_query
\* returns the route 'web'.
C18_StockPriceToWeb ==
    (Routed /\ r_has_documents /\ r_query = StockPriceQuery) =>
        /\ WebScoreOf(StockPriceQuery) > Dec(7)
        /\ r_result.route = "web"

\* the query has been routed with documents present, by the web rule: the
\* confidence is its web score
C18_Witness ==
    /\ Routed /\ r_has_documents /\ r_query = StockPriceQuery
    /\ r_result.route = "web"
    /\ r_result.confidence = WebScoreOf(StockPriceQuery)
    /\ r_result.confidence < Unit

\* the keywords of the c-th web category that occur in the lowered query
MatchedKeywords(c, q) ==
    {i \in DOMAIN query_router.web_keywords[c].keywords :
        Contains(lower(q), query_router.web_keywords[c].keywords[i])}

\* C22: the web score of every query is min(1.0, the sum over the five
\* keyword categories of 0.2 * matched keywords / category size, plus 0.3 when
\* at least one question pattern matches, plus 0.4 when at least one recency
\* pattern matches): each bonus enters once however many patterns match.  The
\* equation is stated multiplied by 10 * 840, 840 being a multiple of every
\* category size, so that no division is involved.
C22_WebScoreComposition ==
    (Routed /\ query_router # Absent) =>
        LET cats == query_router.web_keywords
            q == lower(r_query)
            shares == [c \in 1..5 |->
                          2 * Unit * Cardinality(MatchedKeywords(c, r_query))
                            * (840 \div Len(cats[c].keywords))]
            question == IF \E i \in DOMAIN question_patterns : re_search(question_patterns[i], q)
                        THEN 3 * Unit * 840 ELSE 0
            recency == IF \E i \in DOMAIN time_patterns : re_search(time_patterns[i], q)
                       THEN 4 * Unit * 840 ELSE 0
            sum == shares[1] + shares[2] + shares[3] + shares[4] + shares[5] + question + recency
        IN /\ Len(cats) = 5
           /\ \A c \in 1..5 : 840 % Len(cats[c].keywords) = 0
           /\ 10 * 840 * WebScoreOf(r_query) = Min(sum, 10 * 840 * Unit)
           /\ (r_has_documents /\ WebScoreOf(r_query) > Dec(7)) =>
                  10 * 840 * r_result.confidence = Min(sum, 10 * 840 * Unit)

\* a routed query that two question patterns and a recency pattern match and
\* that holds keywords of two categories: its score is below the cap and holds
\* 0.3 and 0.4 once each
C22_Witness ==
    /\ Routed /\ r_has_documents
    /\ CountMatched(question_patterns, lower(r_query)) >= 2
    /\ CountMatched(time_patterns, lower(r_query)) >= 1
    /\ MatchedKeywords(1, r_query) = {} /\ MatchedKeywords(2, r_query) # {}
    /\ WebScoreOf(r_query) < Unit
    /\ WebScoreOf(r_query) =
          Dec(7) + (2 * Unit * Cardinality(MatchedKeywords(2, r_query))) \div 50
                 + (2 * Unit * Cardinality(MatchedKeywords(4, r_query))) \div 70
    /\ r_result.route = "web"

(***************************************************************************)
(* Properties of the chunker, under SpecChunker.                           *)
(***************************************************************************)
Processed == p_result.called
Emitted == p_result.chunks

\* C11: every chunk appended by _create_intelligent_chunks has a content that is
\* not empty after trimming, also for texts with runs of blank lines.
C11_NoEmptyContent ==
    Processed => \A i \in DOMAIN Emitted : Emitted[i].content # << >>

\* C12: in every call of _split_text_recursive the loop ends, and each
\* iteration starts at a greater offset than the one before.
C12_ForwardProgress ==
    Processed =>
        \A k \in DOMAIN p_result.splits :
            LET split == p_result.splits[k]
            IN /\ split.returns
               /\ \A i \in 1..(Len(split.starts) - 1) : split.starts[i + 1] > split.starts[i]

\* C13: every emitted chunk has 1 <= page_start <= page_end.
C13_PageBounds ==
    Processed =>
        \A i \in DOMAIN Emitted :
            /\ 1 <= Emitted[i].metadata.page_start
            /\ Emitted[i].metadata.page_start <= Emitted[i].metadata.page_end

\* C14: the chunk_index values of the emitted chunks are 0, 1, 2, ... in the
\* order of emission, and the chunks are emitted section by section, within a
\* section by increasing start offset (a section whose splitting does not
\* return emits nothing).
C14_MonotonicSequence ==
    Processed =>
        /\ \A i \in DOMAIN Emitted : Emitted[i].metadata.chunk_index = i - 1
        /\ \A k \in {j \in DOMAIN p_result.splits : p_result.splits[j].returns} :
              LET split == p_result.splits[k]
                  before == Cardinality(UNION {{<< j, i >> : i \in DOMAIN p_result.splits[j].chunks} :
                                                  j \in 1..(k - 1)})
              IN /\ \A i \in 1..(Len(split.starts) - 1) : split.starts[i] < split.starts[i + 1]
                 /\ \A i \in DOMAIN split.chunks :
                       /\ Emitted[before + i].metadata.section = p_result.sections[k].title
                       /\ Emitted[before + i].content = strip(split.chunks[i])

\* a document of two sections, the second emitted as more than one chunk
C14_Witness ==
    /\ Processed /\ p_result.returns
    /\ Len(p_result.sections) = 2
    /\ Len(p_result.splits[1].chunks) >= 2
    /\ Len(p_result.splits[2].chunks) >= 2
    /\ Emitted[Len(Emitted)].metadata.chunk_index = Len(Emitted) - 1
    /\ Emitted[Len(Emitted)].metadata.section = p_result.sections[2].title

\* C15: no emitted chunk's content is longer than chunk_size + chunk_overlap,
\* and neither is any piece a section's text was cut into, whatever the
\* section and the configuration.
C15_ChunkSizeBound ==
    Processed =>
        LET limit == p_processor.chunk_size + p_processor.chunk_overlap
        IN /\ \A i \in DOMAIN Emitted : Len(Emitted[i].content) <= limit
           /\ \A k \in DOMAIN p_result.splits :
                 \A i \in DOMAIN p_result.splits[k].chunks :
                     Len(p_result.splits[k].chunks[i]) <= limit

\* a section cut into several chunks at sentence ends and at the hard limit,
\* one of the emitted chunks being as long as chunk_size
C15_Witness ==
    /\ Processed /\ p_result.returns
    /\ \E k \in DOMAIN p_result.splits :
          LET split == p_result.splits[k]
          IN /\ Len(split.chunks) >= 3
             /\ \E i \in DOMAIN split.chunks : Len(split.chunks[i]) < p_processor.chunk_size
                                                   /\ i < Len(split.chunks)
    /\ \E i \in DOMAIN Emitted : Len(Emitted[i].content) = p_processor.chunk_size

\* C16: a document with zero pages, or whose pages all have empty extracted
\* text, produces an empty chunk list.
C16_EmptyInput ==
    (Processed /\ \A n \in DOMAIN p_pages : p_pages[n] = << >>) => Emitted = << >>

\* the chunks emitted for the k-th section, in order
EmittedOf(k) ==
    LET before == Cardinality(UNION {{<< j, i >> : i \in DOMAIN p_result.splits[j].chunks} :
                                        j \in {j \in 1..(k - 1) : p_result.splits[j].returns}})
        count == IF k \in DOMAIN p_result.splits /\ p_result.splits[k].returns
                 THEN Len(p_result.splits[k].chunks) ELSE 0
    IN [i \in 1..count |-> Emitted[before + i]]

RECURSIVE DropOverlaps(_, _, _)
\* the contents from the i-th on, each after the first without the region its
\* chunk shares with the chunk before it, concatenated
DropOverlaps(units, split, i) ==
    IF i > Len(units) THEN << >>
    ELSE LET shared == IF i = 1 THEN 0
                       ELSE split.starts[i - 1] + Len(split.chunks[i - 1]) - split.starts[i]
             content == units[i].content
         IN SubSeq(content, shared + 1, Len(content)) \o DropOverlaps(units, split, i + 1)

\* C17: for every section, the contents of its emitted chunks, concatenated
\* in order without the regions shared with the predecessor, are the section's
\* text; a section no longer than chunk_size yields exactly one chunk whose
\* content is the section text.
C17_ChunkCoverage ==
    Processed =>
        \A k \in DOMAIN p_result.splits :
            LET text == p_result.sections[k].text
                units == EmittedOf(k)
            IN /\ DropOverlaps(units, p_result.splits[k], 1) = text
               /\ Len(text) <= p_processor.chunk_size =>
                      Len(units) = 1 /\ units[1].content = text

RECURSIVE StrippedLines(_)
\* the lines, each trimmed and followed by a newline, concatenated
StrippedLines(lines) ==
    IF lines = << >> THEN << >>
    ELSE strip(Head(lines)) \o << "\n" >> \o StrippedLines(Tail(lines))

RECURSIVE Segments(_, _)
\* the sections from the k-th on as one text: every title but 'Introduction'
\* of the first section as a line, followed by the section's text
Segments(sections, k) ==
    IF k > Len(sections) THEN << >>
    ELSE (IF k = 1 THEN << >> ELSE sections[k].title \o << "\n" >>)
            \o sections[k].text \o Segments(sections, k + 1)

\* the header lines inside a section's text, each with the length of the
\* section's trimmed text before it
HeadersInside(text) ==
    LET lines == split_lines(text)
    IN {[line |-> lines[j], before |-> Len(strip(StrippedLines(SubSeq(lines, 1, j - 1))))] :
           j \in {i \in DOMAIN lines : is_header(lines[i])}}

\* C20: the sections are the lines of the text in order, cut at the header
\* lines met when the current section's trimmed text is longer than 50
\* characters: such a line is the title of the next section, every other line
\* is content of the current section; the first section is 'Introduction' and
\* a last section with an empty trimmed text is left out.
C20_SectionSegmentation ==
    Processed =>
        LET sections == p_result.sections
            n == Len(sections)
            all == StrippedLines(split_lines(FullText(p_pages, 1)))
            kept == Segments(sections, 1)
            rest == SubSeq(all, Len(kept) + 1, Len(all))
            rest_lines == split_lines(rest)
        IN /\ n > 0 => sections[1].title = Introduction
           /\ \A k \in 2..n : is_header(sections[k].title)
           /\ \A k \in 1..(n - 1) : Len(strip(sections[k].text)) > 50
           /\ \A k \in 1..n :
                 /\ strip(sections[k].text) # << >>
                 /\ \A h \in HeadersInside(sections[k].text) : h.before <= 50
           /\ Len(kept) <= Len(all) /\ SubSeq(all, 1, Len(kept)) = kept
           /\ rest # << >> =>
                 /\ IF n = 0 THEN strip(rest) = << >>
                    ELSE /\ Len(strip(sections[n].text)) > 50
                         /\ is_header(rest_lines[1])
                         /\ strip(SubSeq(rest, Len(rest_lines[1]) + 1, Len(rest))) = << >>

\* a document cut into two sections at a header line, with one header line kept
\* as content in each section because little text came before it
C20_Witness ==
    /\ Processed
    /\ Len(p_result.sections) = 2
    /\ p_result.sections[2].title = << "#", "#", " ", "t" >>
    /\ \E h \in HeadersInside(p_result.sections[1].text) : h.line = << "S", "U", "M", "M", "A", "R", "Y" >>
    /\ \E h \in HeadersInside(p_result.sections[2].text) : h.before = 0

\* the offsets (from 0) of the sentence terminators of the text: '.', '!' or
\* '?' followed by a space or a newline
Terminators(text) ==
    {p \in 0..(Len(text) - 2) : /\ text[p + 1] \in {".", "!", "?"}
                                /\ text[p + 2] \in {" ", "\n"}}

\* C21: a chunk whose window [start, start + chunk_size) does not reach the end
\* of the text ends right after the latest sentence terminator that lies wholly
\* within the last 200 characters of the window and not before start, and at
\* start + chunk_size when there is none; it never ends after start + chunk_size.
C21_BreakPointChoice ==
    Processed =>
        \A k \in DOMAIN p_result.splits :
            LET split == p_result.splits[k]
                text == p_result.sections[k].text
            IN \A i \in DOMAIN split.chunks :
                  LET start == split.starts[i]
                      end == start + p_processor.chunk_size
                      break_point == start + Len(split.chunks[i])
                      inside == {p \in Terminators(text) :
                                    p >= start /\ p >= end - 200 /\ p + 2 <= end}
                  IN end < Len(text) =>
                        /\ break_point <= end
                        /\ split.chunks[i] = Slice(text, start, break_point)
                        /\ IF inside = {} THEN break_point = end
                           ELSE /\ break_point - 2 \in inside
                                /\ \A p \in inside : p + 2 <= break_point

\* a first chunk cut after the only sentence terminator in the last 200
\* characters of its window, earlier terminators being left aside, and a second
\* chunk cut at the hard limit
C21_Witness ==
    /\ Processed /\ p_result.returns
    /\ p_processor.chunk_size > 200
    /\ \E k \in DOMAIN p_result.splits :
          LET split == p_result.splits[k]
              text == p_result.sections[k].text
          IN /\ Len(split.chunks) >= 2
             /\ Len(split.chunks[1]) < p_processor.chunk_size
             /\ \E p \in Terminators(text) : p + 2 = Len(split.chunks[1])
                                               /\ p >= p_processor.chunk_size - 200
             /\ \E p \in Terminators(text) : p < p_processor.chunk_size - 200
             /\ Len(split.chunks[2]) = p_processor.chunk_size

\* C23: the chunk_size recorded for every emitted chunk is the length of the
\* chunk's content.
C23_RecordedSize ==
    Processed =>
        \A i \in DOMAIN Emitted : Emitted[i].metadata.chunk_size = Len(Emitted[i].content)

====
